---- MODULE Spec2Model ----
(***************************************************************************)
(* A model of the incremental MCFG chart parser of MCFG.py, of its chart   *)
(* store and item model (aux_functions_and_classes.py) and of the grammar  *)
(* simplifier (simplified_rules.py).                                       *)
(*                                                                         *)
(* Representation of Python strings.  Every string the parser handles is a *)
(* space-joined list of words (a terminal "a", a placeholder "B(0)", or a  *)
(* realized substring "a b").  A Python string is modelled as the sequence *)
(* of its words, so s.split(' ') is the sequence itself and ' '.join(l) is *)
(* the concatenation of the sequences of l.  Words are TLA+ strings; the   *)
(* characters of a word are given by CharsOf, which is what the substring  *)
(* test of the compatibility filter works on.  Python's 0-based indices    *)
(* are kept (dot positions, range orders, token indices).                  *)
(***************************************************************************)
EXTENDS Integers, Sequences, FiniteSets, TLC

(***************************************************************************)
(* Bounds of the model.                                                    *)
(***************************************************************************)
MaxLen == 3         \* longest input, in tokens
MaxItems == 100      \* a parse is cut off once this many items were created
MaxParses == 2      \* parse calls on one grammar object

(***************************************************************************)
(* Generic helpers.                                                        *)
(***************************************************************************)
Range(s) == {s[i] : i \in DOMAIN s}

Last(s) == s[Len(s)]

RECURSIVE Flatten(_)
\* ' '.join(l) for a list l of strings: the words of all of them, in order
Flatten(l) == IF l = <<>> THEN <<>> ELSE Head(l) \o Flatten(Tail(l))

\* all permutations of 0..d-1 in lexicographic order (itertools.permutations)
RECURSIVE LexPerms(_)
LexPerms(S) ==
    IF S = {} THEN << <<>> >>
    ELSE LET RECURSIVE Walk(_)
             Walk(rest) ==
                IF rest = {} THEN <<>>
                ELSE LET m == CHOOSE x \in rest : \A y \in rest : x <= y
                         sub == LexPerms(S \ {m})
                     IN  [i \in 1..Len(sub) |-> <<m>> \o sub[i]] \o Walk(rest \ {m})
         IN  Walk(S)

\* all orderings of a finite set, as a set of sequences
RECURSIVE SeqsOf(_)
SeqsOf(S) ==
    IF S = {} THEN {<<>>}
    ELSE UNION {{<<x>> \o s : s \in SeqsOf(S \ {x})} : x \in S}

IsInfix(x, y) == \E i \in 0..(Len(y) - Len(x)) : SubSeq(y, i + 1, i + Len(x)) = x

(***************************************************************************)
(* Words.  CharsOf gives the characters of a word: the compatibility       *)
(* filter tests a character substring, and the simplifier takes the set of *)
(* characters of a terminating rule's terminal.                            *)
(***************************************************************************)
CharsOf(w) ==
    CASE w = "aa" -> <<"a", "a">>
      [] w = "ab" -> <<"a", "b">>
      [] OTHER    -> <<w>>

RECURSIVE JoinChars(_)
\* the characters of ' '.join(words)
JoinChars(words) ==
    IF words = <<>> THEN <<>>
    ELSE IF Len(words) = 1 THEN CharsOf(words[1])
    ELSE CharsOf(words[1]) \o <<" ">> \o JoinChars(Tail(words))

\* arg + '(%s)' % index
PH(v, i) == v \o "(" \o ToString(i) \o ")"

ArgNames == {"", "A", "B", "C", "D", "X"}
CompIdx == 0..2

\* re.match('([^\(]*)\((.*)\)', item).groups() on the placeholder words in use
PHTable == [p \in ArgNames \X CompIdx |-> PH(p[1], p[2])]

PHWords == Range(PHTable)

PHParts(w) == CHOOSE p \in ArgNames \X CompIdx : PHTable[p] = w

\* list.index(x)
IndexOf(s, x) == (CHOOSE i \in DOMAIN s : s[i] = x /\ \A j \in 1..(i - 1) : s[j] # x) - 1

(***************************************************************************)
(* The grammars parsed.  A function is (func_name, input_args,             *)
(* result_vector), a rule (symbol, function, vars) where function is a     *)
(* function name or, for a terminating rule, a terminal.                   *)
(***************************************************************************)
Fn(n, a, rv) == [func_name |-> n, input_args |-> a, result_vector |-> rv]

Rl(s, f, v) == [symbol |-> s, function |-> f, vars |-> v]

\* B has two components; f2 and f5 build them differently
GrammarMix ==
    [terminals |-> {"a", "b"}, start_symbol |-> "S",
     functions |-> {Fn("f1", <<"B">>, << <<"B(0)", "B(1)">> >>),
                    Fn("f2", <<>>, << <<"a">>, <<"b">> >>),
                    Fn("f5", <<"C", "D">>, << <<"C(0)">>, <<"D(0)">> >>)},
     rules |-> <<Rl("S", "f1", <<"B">>), Rl("B", "f2", <<>>),
                 Rl("B", "f5", <<"C", "D">>), Rl("C", "b", <<>>), Rl("D", "a", <<>>)>>]

\* the components of A are used in reverse order
GrammarRev ==
    [terminals |-> {"a", "b"}, start_symbol |-> "S",
     functions |-> {Fn("f1", <<"A">>, << <<"A(1)", "A(0)">> >>),
                    Fn("f2", <<>>, << <<"b">>, <<"a">> >>)},
     rules |-> <<Rl("S", "f1", <<"A">>), Rl("A", "f2", <<>>)>>]

\* components of different lengths under a recursive rule
GrammarPump ==
    [terminals |-> {"a", "b"}, start_symbol |-> "S",
     functions |-> {Fn("f1", <<"A">>, << <<"A(0)", "A(1)">> >>),
                    Fn("g", <<"A">>, << <<"A(0)">>, <<"A(1)", "b">> >>),
                    Fn("h", <<"X">>, << <<"a">>, <<"a", "X(0)">> >>)},
     rules |-> <<Rl("S", "f1", <<"A">>), Rl("A", "g", <<"A">>),
                 Rl("A", "h", <<"X">>), Rl("X", "b", <<>>)>>]

\* left recursion
GrammarLeft ==
    [terminals |-> {"a"}, start_symbol |-> "S",
     functions |-> {Fn("f1", <<"A">>, << <<"A(0)">> >>),
                    Fn("f", <<"A">>, << <<"A(0)", "a">> >>),
                    Fn("h", <<>>, << <<"a">> >>)},
     rules |-> <<Rl("S", "f1", <<"A">>), Rl("A", "f", <<"A">>), Rl("A", "h", <<>>)>>]

\* tests.py, "Multiple completed components example"
GrammarTwoComp ==
    [terminals |-> {"a", "b"}, start_symbol |-> "S",
     functions |-> {Fn("f1", <<"B">>, << <<"B(0)", "B(1)">> >>),
                    Fn("f2", <<>>, << <<"a">>, <<"b">> >>),
                    Fn("f3", <<"B">>, << <<"B(0)">> >>),
                    Fn("f4", <<"C">>, << <<"C(0)">> >>)},
     rules |-> <<Rl("S", "f1", <<"B">>), Rl("B", "f2", <<>>), Rl("B", "f3", <<"B">>),
                 Rl("B", "f4", <<"C">>), Rl("C", "a", <<>>)>>]

\* one nonterminal with a terminating rule and a function rule
GrammarKinds ==
    [terminals |-> {"a"}, start_symbol |-> "S",
     functions |-> {Fn("f1", <<"A">>, << <<"A(0)">> >>),
                    Fn("f", <<"A">>, << <<"A(0)", "a">> >>)},
     rules |-> <<Rl("S", "f1", <<"A">>), Rl("A", "f", <<"A">>), Rl("A", "a", <<>>)>>]

Grammars == <<GrammarMix, GrammarRev, GrammarPump, GrammarLeft, GrammarTwoComp, GrammarKinds>>

RECURSIVE SeqsUpTo(_, _)
SeqsUpTo(S, n) ==
    IF n = 0 THEN {<<>>}
    ELSE LET shorter == SeqsUpTo(S, n - 1)
         IN  shorter \cup {Append(s, x) : s \in {t \in shorter : Len(t) = n - 1}, x \in S}

\* text.split(' ') of the texts parsed: non-empty sequences of terminals
Inputs(g) == SeqsUpTo(g.terminals, MaxLen) \ {<<>>}

(***************************************************************************)
(* Grammar construction: MCFG.__init__ and the simplifier.                 *)
(***************************************************************************)
\* connect_rules_to_funcs: a rule whose right-hand element is a terminal is terminating
IsTerminating(g, r) == r.function \in g.terminals

\* func_name_to_func[func_name]
FuncOf(g, r) == CHOOSE f \in g.functions : f.func_name = r.function

\* the atoms of a result vector, as a set
AtomsOf(rv) == UNION {Range(rv[i]) : i \in DOMAIN rv}

GetRightHandSide(g, r) ==
    IF IsTerminating(g, r) THEN Range(CharsOf(r.function))
    ELSE LET f == FuncOf(g, r)
         IN  {IF c \in g.terminals THEN c
              ELSE r.vars[IndexOf(f.input_args, PHParts(c)[1]) + 1] : c \in AtomsOf(f.result_vector)}

AllVectorComponentsInSet(l, predicate_set) == \A v \in l : v \in predicate_set

\* MCFGRule.__eq__ raises when it compares a function object with a terminal string:
\* two rules of one symbol, one terminating and one not
RuleEqRaises(g, r1, r2) ==
    r1.symbol = r2.symbol /\ IsTerminating(g, r1) # IsTerminating(g, r2)

\* list.remove(rule) of update_original_rules
RemoveRule(list, r) ==
    IF r \in Range(list)
    THEN LET i == IndexOf(list, r) + 1
         IN  SubSeq(list, 1, i - 1) \o SubSeq(list, i + 1, Len(list))
    ELSE list

\* 'rule in original_rules' on a list compares with the elements up to the first match
MembershipRaises(g, list, r) ==
    \E i \in DOMAIN list : /\ RuleEqRaises(g, list[i], r)
                           /\ \A j \in 1..(i - 1) : list[j] # r

RECURSIVE UpdateRaiseOrders(_, _, _)
\* update_original_rules iterates the set useful_rules in hash order: whether one of
\* its membership tests raises, for every order of iteration
UpdateRaiseOrders(g, todo, list) ==
    IF todo = {} THEN {FALSE}
    ELSE UNION {IF MembershipRaises(g, list, r) THEN {TRUE}
                ELSE UpdateRaiseOrders(g, todo \ {r}, RemoveRule(list, r)) : r \in todo}

\* the rules of the symbols that have rules of both kinds: a test of another rule
\* raises in no order, and its removal changes the test of no rule
MixedKinds(g, todo, list) ==
    {r \in todo : \E q \in todo \cup Range(list) : RuleEqRaises(g, q, r)}

UpdateRaiseOutcomes(g, todo, list) == UpdateRaiseOrders(g, MixedKinds(g, todo, list), list)

\* update_original_rules: the list left and whether a rule was removed
UpdateOriginalRules(useful, list) ==
    LET keep(r) == r \notin useful
    IN  [rules |-> SelectSeq(list, keep), found |-> \E i \in DOMAIN list : list[i] \in useful]

RECURSIVE ProductivePass(_, _, _, _, _)
\* one 'for rule in original_rules' loop of eliminate_useless_rules
ProductivePass(g, list, i, useful, predicates) ==
    IF i > Len(list) THEN [useful |-> useful, predicates |-> predicates]
    ELSE IF AllVectorComponentsInSet(GetRightHandSide(g, list[i]), predicates)
         THEN ProductivePass(g, list, i + 1, useful \cup {list[i]}, predicates \cup {list[i].symbol})
         ELSE ProductivePass(g, list, i + 1, useful, predicates)

RECURSIVE UselessLoop(_, _, _, _, _)
\* the while loop of eliminate_useless_rules; raises collects the outcomes of the updates
UselessLoop(g, list, useful, predicates, raises) ==
    LET pass == ProductivePass(g, list, 1, useful, predicates)
        upd  == UpdateOriginalRules(pass.useful, list)
        out  == UpdateRaiseOutcomes(g, pass.useful, list)
    IN  IF upd.found
        THEN UselessLoop(g, upd.rules, pass.useful, pass.predicates, Append(raises, out))
        ELSE [rules |-> pass.useful, raises |-> Append(raises, out)]

\* a variant of EliminateUselessRules without the while loop: the rules found
\* productive by the first pass over the list
EliminateUselessRulesOnePass(g, list) ==
    LET terminating == {list[i] : i \in {j \in DOMAIN list : IsTerminating(g, list[j])}}
        start == g.terminals \cup {r.symbol : r \in terminating}
        pass == ProductivePass(g, list, 1, terminating, start)
    IN  [rules |-> pass.useful, raises |-> <<UpdateRaiseOutcomes(g, pass.useful, list)>>]

\* a variant of EliminateUselessRules that finds every rule productive
EliminateUselessRulesKeepAll(g, list) == [rules |-> Range(list), raises |-> <<{FALSE}>>]

EliminateUselessRules(g, list) ==
    LET terminating == {list[i] : i \in {j \in DOMAIN list : IsTerminating(g, list[j])}}
        start == g.terminals \cup {r.symbol : r \in terminating}
        pass == ProductivePass(g, list, 1, terminating, start)
        upd  == UpdateOriginalRules(pass.useful, list)
        out  == UpdateRaiseOutcomes(g, pass.useful, list)
    IN  IF ~upd.found THEN [rules |-> {}, raises |-> <<out>>]
        ELSE UselessLoop(g, upd.rules, pass.useful, pass.predicates, <<out>>)

RECURSIVE ReachableLoop(_, _, _, _)
\* the while loop of eliminate_unreachable_rules.  The rules are a set there; a pass
\* in any order of iteration ends the loop with the same sets.
ReachableLoop(g, original, reachable, predicates) ==
    LET add == {r \in original : r.symbol \in predicates}
    IN  IF add = {} THEN reachable
        ELSE ReachableLoop(g, original \ add, reachable \cup add,
                           predicates \cup UNION {GetRightHandSide(g, r) : r \in add})

\* a variant of EliminateUnreachableRules that eliminates nothing
KeepUnreachableRules(g, rules) == rules

EliminateUnreachableRules(g, rules) ==
    LET first == {r \in rules : r.symbol = g.start_symbol}
    IN  IF first = {} THEN {}
        ELSE ReachableLoop(g, rules \ first, first,
                           UNION {GetRightHandSide(g, r) : r \in first})

\* a variant of Simplify that eliminates the unreachable rules first
SimplifySwapped(g, list) ==
    LET reachable == EliminateUnreachableRules(g, Range(list))
        useful == EliminateUselessRules(g, SelectSeq(list, LAMBDA r : r \in reachable))
    IN  [rules |-> useful.rules, raises |-> useful.raises]

\* simplify: the rules returned, and for each update of the first elimination
\* whether it raises (over the orders of iteration)
Simplify(g, list) ==
    LET useful == EliminateUselessRules(g, list)
    IN  [rules |-> EliminateUnreachableRules(g, useful.rules), raises |-> useful.raises]

\* get_right_hand_side raises (rule.vars[arg_index]) for a rule that passes fewer
\* variables than the position of an argument a placeholder of its function names
RightHandSideRaises(g, r) ==
    /\ ~IsTerminating(g, r)
    /\ \E c \in AtomsOf(FuncOf(g, r).result_vector) \ g.terminals :
          IndexOf(FuncOf(g, r).input_args, PHParts(c)[1]) + 1 > Len(r.vars)

\* the second loop of eliminate_useless_rules takes the right-hand side of every rule
\* of the list
SomeRightHandSideRaises(g, list) == \E i \in DOMAIN list : RightHandSideRaises(g, list[i])

SimplifyCanRaise(g, list) ==
    IF SomeRightHandSideRaises(g, list) THEN TRUE
    ELSE LET out == Simplify(g, list).raises IN \E i \in DOMAIN out : TRUE \in out[i]

SimplifyCanReturn(g, list) ==
    IF SomeRightHandSideRaises(g, list) THEN FALSE
    ELSE LET out == Simplify(g, list).raises IN \A i \in DOMAIN out : FALSE \in out[i]

(***************************************************************************)
(* The language of a grammar, by derivation: a nonterminal derives tuples  *)
(* of token sequences; a rule applies its function to one tuple per        *)
(* variable, every placeholder Name(i) taking component i of the tuple of  *)
(* Name.  Tuples of more than TupleBound tokens are left out, which loses  *)
(* no sentence of at most MaxLen tokens of the grammars above.             *)
(***************************************************************************)
TupleBound == MaxLen + 1

TupleSize(t) == Len(Flatten(t))

RECURSIVE Assignments(_, _)
\* one derived tuple for each variable of a rule
Assignments(vars, vals) ==
    IF vars = <<>> THEN {<<>>}
    ELSE {<<t>> \o rest : t \in vals[Head(vars)], rest \in Assignments(Tail(vars), vals)}

\* the tuple a function rule builds from the tuples asg of its variables, or <<>>
\* when a placeholder names a component the tuple does not have
ApplyRule(g, r, asg) ==
    LET f == FuncOf(g, r)
        Arg(c) == asg[IndexOf(f.input_args, PHParts(c)[1]) + 1]
        Defined(c) == c \in g.terminals \/ PHParts(c)[2] < Len(Arg(c))
        Value(c) == IF c \in g.terminals THEN <<c>> ELSE Arg(c)[PHParts(c)[2] + 1]
        rv == f.result_vector
    IN  IF \A c \in AtomsOf(rv) : Defined(c)
        THEN [i \in DOMAIN rv |-> Flatten([k \in DOMAIN rv[i] |-> Value(rv[i][k])])]
        ELSE <<>>

Nonterminals(rules) == {r.symbol : r \in rules} \cup UNION {Range(r.vars) : r \in rules}

DeriveStep(g, rules, vals) ==
    [n \in DOMAIN vals |->
        vals[n] \cup
        {<< <<r.function>> >> : r \in {q \in rules : q.symbol = n /\ IsTerminating(g, q)}} \cup
        {t \in UNION {{ApplyRule(g, r, asg) : asg \in Assignments(r.vars, vals)} :
                      r \in {q \in rules : q.symbol = n /\ ~IsTerminating(g, q)}} :
            t # <<>> /\ TupleSize(t) <= TupleBound}]

RECURSIVE DeriveFix(_, _, _)
DeriveFix(g, rules, vals) ==
    LET next == DeriveStep(g, rules, vals)
    IN  IF next = vals THEN vals ELSE DeriveFix(g, rules, next)

\* the sentences the start symbol derives with the set rules
Language(g, rules) ==
    LET nts == Nonterminals(rules) \cup {g.start_symbol}
        vals == DeriveFix(g, rules, [n \in nts |-> {}])
    IN  {t[1] : t \in {u \in vals[g.start_symbol] : Len(u) = 1}}

(***************************************************************************)
(* Items.  An item is a record of the attributes of an ActiveItem (the     *)
(* attribute combined, which no code changes, is left out).  A dot         *)
(* position is <<component, position>>; a vector binding is a sequence of  *)
(* components, each a sequence of strings.                                 *)
(***************************************************************************)
\* what get_symbol_after_dot returns for an item with nothing after the dot
None == <<>>

ActiveItem(id, symbol, found_start, found_end, dot_position, action_type, range_order, token_index, vector_binding, rule, antecedent_ids, found_sequence) ==
    [id |-> id, symbol |-> symbol, dot_position |-> dot_position,
     found_start |-> found_start, found_end |-> found_end, range_order |-> range_order,
     token_index |-> token_index, action_type |-> action_type, rule |-> rule,
     found_sequence |-> found_sequence, antecedent_ids |-> antecedent_ids,
     scanned |-> FALSE, ignored |-> FALSE, vector_binding |-> vector_binding]

\* get_symbol_after_dot: the component is looked up through the range order
GetSymbolAfterDot(item) ==
    LET d == item.dot_position
    IN  IF d[1] < Len(item.range_order)
        THEN LET component == item.vector_binding[item.range_order[d[1] + 1] + 1]
             IN  IF d[2] < Len(component) THEN component[d[2] + 1] ELSE None
        ELSE None

\* get_next_dot_position_and_check_if_complete: the component measured is
\* vector_binding[dot_position[0]], not the component of the range order
GetNextDotPositionAndCheckIfComplete(item, force_complete) ==
    LET d == item.dot_position
        vector_component == item.vector_binding[d[1] + 1]
    IN  IF force_complete THEN [dot |-> <<d[1] + 1, 0>>, complete |-> FALSE]
        ELSE IF d[2] + 1 < Len(vector_component) THEN [dot |-> <<d[1], d[2] + 1>>, complete |-> FALSE]
        ELSE IF d[2] + 1 = Len(vector_component) THEN [dot |-> <<d[1], d[2] + 1>>, complete |-> TRUE]
        ELSE [dot |-> <<d[1] + 1, 0>>, complete |-> FALSE]

\* get_all_completed_components_and_values: the dictionary as the sequence of its
\* (key, value) pairs in insertion order
GetAllCompletedComponentsAndValues(item) ==
    [i \in 1..item.dot_position[1] |->
        [key |-> PH(item.symbol, item.range_order[i]),
         value |-> item.vector_binding[item.range_order[i] + 1]]]

\* create_complete_item
CreateCompleteItem(item, id) ==
    ActiveItem(id, item.symbol, item.found_start, item.found_end,
               GetNextDotPositionAndCheckIfComplete(item, TRUE).dot, "complete",
               item.range_order, item.token_index, item.vector_binding, item.rule,
               <<item.id>>, item.found_sequence)

\* ActiveItem.__eq__: every attribute but id and antecedent_ids
ItemEq(a, b) ==
    [a EXCEPT !.id = 0, !.antecedent_ids = <<>>] = [b EXCEPT !.id = 0, !.antecedent_ids = <<>>]

\* ActiveItem.__eq__ compares the attributes in the order of their assignment and
\* stops at the first difference: it reaches the rules, whose comparison raises for
\* rules of two kinds, when the seven attributes before them are equal
ItemEqRaises(g, a, b) ==
    /\ a.symbol = b.symbol /\ a.dot_position = b.dot_position
    /\ a.found_start = b.found_start /\ a.found_end = b.found_end
    /\ a.range_order = b.range_order /\ a.token_index = b.token_index
    /\ a.action_type = b.action_type
    /\ RuleEqRaises(g, a.rule, b.rule)

(***************************************************************************)
(* The chart.  all_items maps ids to items; the three roles are the ids of *)
(* their dictionaries in insertion order.  The operators below work on a   *)
(* record m of the chart, the class counter items_counter, the set used of *)
(* the rules marked used, and raised (an exception left the parse).        *)
(***************************************************************************)
EmptyChart ==
    [all_items |-> <<>>, active_items |-> <<>>,
     active_items_with_completed_components |-> <<>>, completed_items |-> <<>>,
     prediction_strategy |-> {}, combined_couples |-> {}]

\* all_terminals
AllTerminals(g, l) == \A i \in DOMAIN l : \A k \in DOMAIN l[i] : l[i][k] \in g.terminals

\* filter_out_non_compatible_items: a character substring test on the joined texts
FilterOutNonCompatibleItems(g, tokens, items_list) ==
    LET Compatible(item) ==
            \/ ~AllTerminals(g, item.found_sequence)
            \/ IsInfix(JoinChars(Flatten(item.found_sequence)), JoinChars(tokens))
    IN  SelectSeq(items_list, Compatible)

\* get_items_list for a role: the items not ignored, in dictionary order
GetItemsList(chart, chart_name) ==
    LET NotIgnored(id) == ~chart.all_items[id].ignored
    IN  SelectSeq(chart[chart_name], NotIgnored)

\* 'item in self.chart[chart_name].values()': the values are compared in order up
\* to the first that equals the item or whose comparison raises
ItemInValues(g, all_items, values, item) ==
    LET hits == {j \in DOMAIN values : \/ ItemEq(all_items[values[j]], item)
                                       \/ ItemEqRaises(g, all_items[values[j]], item)}
    IN  IF hits = {} THEN "no"
        ELSE IF ItemEq(all_items[values[CHOOSE j \in hits : \A k \in hits : j <= k]], item)
        THEN "yes"
        ELSE "raises"

\* the object of an item handed to the chart: one already in all_items has the
\* flags it was given since
CurrentItem(m, given) ==
    IF given.id \in DOMAIN m.chart.all_items THEN m.chart.all_items[given.id] ELSE given

\* the body of the loop of add_items_to_chart, found being the outcome of
\* 'item in self.chart[chart_name].values()'
AddItemToChart(m, item, chart_name, found) ==
    IF found = "raises" THEN [m EXCEPT !.raised = TRUE]
    ELSE [m EXCEPT
            !.chart.all_items = (item.id :> [item EXCEPT !.ignored = @ \/ found = "yes"]) @@ @,
            !.chart[chart_name] = IF item.id \in Range(@) THEN @ ELSE Append(@, item.id)]

RECURSIVE AddItemsToChart(_, _, _, _)
\* add_items_to_chart
AddItemsToChart(g, m, items_list, chart_name) ==
    IF items_list = <<>> \/ m.raised THEN m
    ELSE AddItemsToChart(g,
            AddItemToChart(m, CurrentItem(m, Head(items_list)), chart_name,
                           ItemInValues(g, m.chart.all_items, m.chart[chart_name],
                                        CurrentItem(m, Head(items_list)))),
            Tail(items_list), chart_name)

\* what add_active_items_to_chart and add_completed_items_to_chart return
AnyCompatible(g, tokens, items_list) ==
    FilterOutNonCompatibleItems(g, tokens, items_list) # <<>>

\* add_active_items_to_chart: the state it leaves
AddActiveItemsToChart(g, tokens, m, active_items_list) ==
    AddItemsToChart(g, m, FilterOutNonCompatibleItems(g, tokens, active_items_list),
                    "active_items")

\* a variant of PopActive that leaves the item in active_items
PopActiveKept(m, item_id) == m

\* 'self.chart['active_items'].pop(item_id)'
PopActive(m, item_id) ==
    IF m.raised THEN m
    ELSE [m EXCEPT !.chart.active_items = SelectSeq(@, LAMBDA id : id # item_id)]

RECURSIVE AddFullyCompleted(_, _, _)
\* the loop of add_completed_items_to_chart: an item whose dot is past the last
\* component goes to completed_items and leaves active_items
AddFullyCompleted(g, m, items_list) ==
    IF items_list = <<>> \/ m.raised THEN m
    ELSE IF Head(items_list).dot_position[1] = Len(Head(items_list).vector_binding)
    THEN AddFullyCompleted(g,
            PopActive(AddItemsToChart(g, m, <<Head(items_list)>>, "completed_items"),
                      Head(items_list).id),
            Tail(items_list))
    ELSE AddFullyCompleted(g, m, Tail(items_list))

\* add_completed_items_to_chart: the state it leaves
AddCompletedItemsToChart(g, tokens, m, completed_items_list) ==
    AddItemsToChart(g,
        AddFullyCompleted(g, m, FilterOutNonCompatibleItems(g, tokens, completed_items_list)),
        FilterOutNonCompatibleItems(g, tokens, completed_items_list),
        "active_items_with_completed_components")

(***************************************************************************)
(* The three inference steps of MCFGParser.  A token is a word; as a       *)
(* Python string it is the one-word string <<token>>.                      *)
(***************************************************************************)
\* call_func raises when the rule passes another number of arguments
CallFuncRaises(func, args) == Len(args) # Len(func.input_args)

\* call_func: every placeholder is renamed to the variable passed for its argument
CallFunc(g, func, args) ==
    LET Bound(item) ==
            IF item \in g.terminals THEN <<item>>
            ELSE <<PH(args[IndexOf(func.input_args, PHParts(item)[1]) + 1], PHParts(item)[2])>>
        rv == func.result_vector
    IN  [i \in DOMAIN rv |-> [k \in DOMAIN rv[i] |-> Bound(rv[i][k])]]

\* get_all_possible_orders_for_result_vector
GetAllPossibleOrdersForResultVector(func) == LexPerms(0..(Len(func.result_vector) - 1))

\* add_item_to_prediction_strategy: the whole set is added when one element of it
\* is a non-empty word that is no terminal
AddItemToPredictionStrategy(g, chart, strategy_set) ==
    IF \E item \in strategy_set : item # "" /\ item \notin g.terminals
    THEN [chart EXCEPT !.prediction_strategy = @ \cup strategy_set]
    ELSE chart

\* the vector binding of a predicted rule
PredictedBinding(g, rule) ==
    IF IsTerminating(g, rule) THEN << << <<rule.function>> >> >>
    ELSE CallFunc(g, FuncOf(g, rule), rule.vars)

\* possible_arg_index_order
PredictedOrders(g, rule) ==
    IF IsTerminating(g, rule) THEN << <<0>> >>
    ELSE GetAllPossibleOrdersForResultVector(FuncOf(g, rule))

\* a variant of StartsWithWrongTerminal that prunes every rule whose yield starts
\* with a terminal
StartsWithTerminal(g, first_symbol_in_yield, token) ==
    Len(first_symbol_in_yield) = 1 /\ first_symbol_in_yield[1] \in g.terminals

\* "Don't predict this rule, it's starts with the wrong terminal"
StartsWithWrongTerminal(g, first_symbol_in_yield, token) ==
    /\ Len(first_symbol_in_yield) = 1
    /\ first_symbol_in_yield[1] \in g.terminals
    /\ first_symbol_in_yield # <<token>>

\* a variant of PredictedItems that stamps the items with the next token index
PredictedItemsAhead(counter, symbol, rule, token_index, vector_binding, orders) ==
    [k \in DOMAIN orders |->
        ActiveItem(counter + k, symbol, token_index, token_index, <<0, 0>>, "predict",
                   orders[k], token_index + 1, vector_binding, rule, <<>>, <<>>)]

\* one predicted item for each possible order
PredictedItems(counter, symbol, rule, token_index, vector_binding, orders) ==
    [k \in DOMAIN orders |->
        ActiveItem(counter + k, symbol, token_index, token_index, <<0, 0>>, "predict",
                   orders[k], token_index, vector_binding, rule, <<>>, <<>>)]

\* a variant of MarkPredicted that leaves the rule unmarked
MarkPredictedUnmarked(g, m, rule, n) ==
    [m EXCEPT !.chart = AddItemToPredictionStrategy(g, @, Range(rule.vars)),
              !.items_counter = @ + n]

\* mark_used, add_item_to_prediction_strategy and the ids taken by the items
MarkPredicted(g, m, rule, n) ==
    [m EXCEPT !.used = @ \cup {rule},
              !.chart = AddItemToPredictionStrategy(g, @, Range(rule.vars)),
              !.items_counter = @ + n]

\* a variant of PredictRule that marks used the rule it skips for its first terminal
PredictRuleMarkingSkipped(g, acc, symbol, rule, token, token_index) ==
    IF acc.m.raised \/ rule \in acc.m.used THEN acc
    ELSE IF ~IsTerminating(g, rule) /\ CallFuncRaises(FuncOf(g, rule), rule.vars)
    THEN [acc EXCEPT !.m.raised = TRUE]
    ELSE IF StartsWithWrongTerminal(g, PredictedBinding(g, rule)[1][1], token)
    THEN [acc EXCEPT !.m.used = @ \cup {rule}]
    ELSE [m |-> MarkPredicted(g, acc.m, rule, Len(PredictedOrders(g, rule))),
          items |-> acc.items \o PredictedItems(acc.m.items_counter, symbol, rule, token_index,
                                                PredictedBinding(g, rule),
                                                PredictedOrders(g, rule))]

\* the body of the loop 'for rule in rules' of do_predict; acc is (m, items)
PredictRule(g, acc, symbol, rule, token, token_index) ==
    IF acc.m.raised \/ rule \in acc.m.used THEN acc
    ELSE IF ~IsTerminating(g, rule) /\ CallFuncRaises(FuncOf(g, rule), rule.vars)
    THEN [acc EXCEPT !.m.raised = TRUE]
    ELSE IF StartsWithWrongTerminal(g, PredictedBinding(g, rule)[1][1], token) THEN acc
    ELSE [m |-> MarkPredicted(g, acc.m, rule, Len(PredictedOrders(g, rule))),
          items |-> acc.items \o PredictedItems(acc.m.items_counter, symbol, rule, token_index,
                                                PredictedBinding(g, rule),
                                                PredictedOrders(g, rule))]

RECURSIVE PredictRules(_, _, _, _, _, _)
\* 'for rule in rules' of do_predict
PredictRules(g, acc, symbol, rules, token, token_index) ==
    IF rules = <<>> THEN acc
    ELSE PredictRules(g, PredictRule(g, acc, symbol, Head(rules), token, token_index),
                      symbol, Tail(rules), token, token_index)

\* a variant of RulesFor that gives the first rule of the symbol only, so that the
\* layout decides which rule is predicted
RulesForFirstOnly(vars_to_rules, symbol) ==
    IF symbol \in DOMAIN vars_to_rules THEN SubSeq(vars_to_rules[symbol], 1, 1) ELSE <<>>

\* vars_to_rules[symbol]: a symbol without rules has the empty list of the defaultdict
RulesFor(vars_to_rules, symbol) ==
    IF symbol \in DOMAIN vars_to_rules THEN vars_to_rules[symbol] ELSE <<>>

RECURSIVE PredictSymbols(_, _, _, _, _, _)
\* 'for symbol in prediction_strategy' of do_predict
PredictSymbols(g, acc, vars_to_rules, prediction_strategy, token, token_index) ==
    IF prediction_strategy = <<>> THEN acc
    ELSE PredictSymbols(g,
            PredictRules(g, acc, Head(prediction_strategy),
                         RulesFor(vars_to_rules, Head(prediction_strategy)), token, token_index),
            vars_to_rules, Tail(prediction_strategy), token, token_index)

\* do_predict, for the symbols in the order they are iterated in
DoPredict(g, m, vars_to_rules, token, token_index, prediction_strategy) ==
    PredictSymbols(g, [m |-> m, items |-> <<>>], vars_to_rules, prediction_strategy,
                   token, token_index)

\* the item a scan makes: the dot moves on, the token joins the found sequence,
\* and an item that completes a component is marked ignored
ScannedItem(id, active_item, next, token, token_index) ==
    [ActiveItem(id, active_item.symbol, active_item.found_start, active_item.found_end + 1,
                next.dot, "scan", active_item.range_order, token_index,
                active_item.vector_binding, active_item.rule, <<active_item.id>>,
                Append(active_item.found_sequence, <<token>>))
        EXCEPT !.ignored = next.complete]

\* a variant of ScanResult that leaves the scanned item unmarked
ScanResultUnmarked(m, scanned_active_item, complete) ==
    [m |-> [m EXCEPT !.items_counter = IF complete THEN @ + 2 ELSE @ + 1],
     active_items |-> <<scanned_active_item>>,
     completed_items |-> IF complete
                         THEN <<CreateCompleteItem(scanned_active_item, scanned_active_item.id + 1)>>
                         ELSE <<>>]

\* what do_scan leaves and returns after making scanned_active_item
ScanResult(m, scanned_active_item, complete) ==
    [m |-> [m EXCEPT !.chart.all_items[scanned_active_item.antecedent_ids[1]].scanned = TRUE,
                     !.items_counter = IF complete THEN @ + 2 ELSE @ + 1],
     active_items |-> <<scanned_active_item>>,
     completed_items |-> IF complete
                         THEN <<CreateCompleteItem(scanned_active_item, scanned_active_item.id + 1)>>
                         ELSE <<>>]

\* do_scan
DoScanItem(m, active_item, token, token_index) ==
    IF \/ active_item.token_index > token_index
       \/ active_item.scanned
       \/ GetSymbolAfterDot(active_item) # <<token>>
    THEN [m |-> m, active_items |-> <<>>, completed_items |-> <<>>]
    ELSE ScanResult(m,
            ScannedItem(m.items_counter + 1, active_item,
                        GetNextDotPositionAndCheckIfComplete(active_item, FALSE),
                        token, token_index),
            GetNextDotPositionAndCheckIfComplete(active_item, FALSE).complete)

DoScan(m, active_id, token, token_index) ==
    DoScanItem(m, m.chart.all_items[active_id], token, token_index)

\* get_new_vector_binding: the string after the dot, found through the range order,
\* is replaced by the value of the completed component
GetNewVectorBinding(active_item, new_component_value) ==
    [active_item.vector_binding EXCEPT
        ![active_item.range_order[active_item.dot_position[1] + 1] + 1]
         [active_item.dot_position[2] + 1] = new_component_value]

\* the item a combine makes
CombinedItem(id, active_item, completed_id, next, completed_component_value, token_index) ==
    [ActiveItem(id, active_item.symbol, active_item.found_start, active_item.found_end + 1,
                next.dot, "combine", active_item.range_order, token_index,
                GetNewVectorBinding(active_item, completed_component_value),
                active_item.rule, <<active_item.id, completed_id>>,
                Append(active_item.found_sequence, completed_component_value))
        EXCEPT !.ignored = next.complete]

\* a variant of CombineResult for a get_new_vector_binding that writes into the
\* binding of the active item instead of a copy of it
CombineResultInPlace(acc, combined_item, complete) ==
    [m |-> [acc.m EXCEPT !.items_counter = IF complete THEN @ + 2 ELSE @ + 1,
                         !.chart.all_items[combined_item.antecedent_ids[1]].vector_binding =
                             combined_item.vector_binding],
     combined_items |-> Append(acc.combined_items, combined_item),
     completed_items |-> IF complete
                         THEN Append(acc.completed_items,
                                     CreateCompleteItem(combined_item, combined_item.id + 1))
                         ELSE acc.completed_items]

\* the lists of do_combine after making combined_item
CombineResult(acc, combined_item, complete) ==
    [m |-> [acc.m EXCEPT !.items_counter = IF complete THEN @ + 2 ELSE @ + 1],
     combined_items |-> Append(acc.combined_items, combined_item),
     completed_items |-> IF complete
                         THEN Append(acc.completed_items,
                                     CreateCompleteItem(combined_item, combined_item.id + 1))
                         ELSE acc.completed_items]

\* a variant of CheckIfCoupleIsAlreadyCombined that finds no couple combined
CoupleNeverCombined(chart, ids_tuple) == FALSE

\* a variant of CheckIfCoupleIsAlreadyCombined that finds every couple combined
CoupleAlwaysCombined(chart, ids_tuple) == TRUE

CheckIfCoupleIsAlreadyCombined(chart, ids_tuple) ==
    \/ ids_tuple \in chart.combined_couples
    \/ <<ids_tuple[2], ids_tuple[1]>> \in chart.combined_couples

UpdateCombinedCouples(acc, ids_tuple) ==
    [acc EXCEPT !.m.chart.combined_couples = @ \cup {ids_tuple}]

\* the body of 'for active_item in candidates_for_combining'; acc is
\* (m, combined_items, completed_items).  With completed components in the active
\* item and several in the completed item, the components are compared and nothing
\* is built.
CombineItems(acc, active_item, completed_item, component, several, token_index) ==
    IF active_item.token_index > token_index THEN acc
    ELSE IF CheckIfCoupleIsAlreadyCombined(acc.m.chart, <<active_item.id, completed_item.id>>)
    THEN acc
    ELSE IF active_item.dot_position[1] > 0 /\ several
    THEN UpdateCombinedCouples(acc, <<active_item.id, completed_item.id>>)
    ELSE CombineResult(
            UpdateCombinedCouples(acc, <<active_item.id, completed_item.id>>),
            CombinedItem(acc.m.items_counter + 1, active_item, completed_item.id,
                         GetNextDotPositionAndCheckIfComplete(active_item, FALSE),
                         Flatten(component.value), token_index),
            GetNextDotPositionAndCheckIfComplete(active_item, FALSE).complete)

RECURSIVE CombineCandidates(_, _, _, _, _, _)
CombineCandidates(acc, candidates, completed_item, component, several, token_index) ==
    IF candidates = <<>> THEN acc
    ELSE CombineCandidates(
            CombineItems(acc, acc.m.chart.all_items[Head(candidates)], completed_item,
                         component, several, token_index),
            Tail(candidates), completed_item, component, several, token_index)

\* the active items whose symbol after the dot is the completed component
CandidatesForCombining(all_items, current_active_items, completed_component) ==
    SelectSeq(current_active_items,
              LAMBDA id : GetSymbolAfterDot(all_items[id]) = <<completed_component>>)

RECURSIVE CombineComponents(_, _, _, _, _, _)
\* 'for completed_component in completed_components_and_values.keys()'
CombineComponents(acc, components, several, completed_item, token_index, current_active_items) ==
    IF components = <<>> THEN acc
    ELSE CombineComponents(
            CombineCandidates(acc,
                CandidatesForCombining(acc.m.chart.all_items, current_active_items,
                                       Head(components).key),
                completed_item, Head(components), several, token_index),
            Tail(components), several, completed_item, token_index, current_active_items)

DoCombineItem(m, completed_item, token_index, current_active_items) ==
    CombineComponents([m |-> m, combined_items |-> <<>>, completed_items |-> <<>>],
                      GetAllCompletedComponentsAndValues(completed_item),
                      Len(GetAllCompletedComponentsAndValues(completed_item)) > 1,
                      completed_item, token_index, current_active_items)

\* do_combine
DoCombine(m, completed_id, token_index, current_active_items) ==
    DoCombineItem(m, m.chart.all_items[completed_id], token_index, current_active_items)

(***************************************************************************)
(* run_action_and_add_items_to_chart and the phases of a sweep.  A run is  *)
(* (m, added): the state left and the flag returned.                       *)
(***************************************************************************)
AddPredicted(g, tokens, made) ==
    [m |-> AddActiveItemsToChart(g, tokens, made.m, made.items),
     added |-> AnyCompatible(g, tokens, made.items)]

RunPredict(g, tokens, m, vars_to_rules, token_index, prediction_strategy) ==
    AddPredicted(g, tokens, DoPredict(g, m, vars_to_rules, tokens[token_index + 1],
                                      token_index, prediction_strategy))

\* a variant of AddMade that leaves out f1: the items made go to no role
AddMadeWithoutFirst(g, tokens, m, active_items, completed_items) ==
    [m |-> AddCompletedItemsToChart(g, tokens,
                AddActiveItemsToChart(g, tokens, m, completed_items),
                completed_items),
     added |-> AnyCompatible(g, tokens, active_items) \/ AnyCompatible(g, tokens, completed_items)]

\* f1, f2 and f3 of the actions combine and scan
AddMade(g, tokens, m, active_items, completed_items) ==
    [m |-> AddCompletedItemsToChart(g, tokens,
                AddActiveItemsToChart(g, tokens,
                    AddActiveItemsToChart(g, tokens, m, active_items),
                    completed_items),
                completed_items),
     added |-> AnyCompatible(g, tokens, active_items) \/ AnyCompatible(g, tokens, completed_items)]

AddCombined(g, tokens, made) ==
    AddMade(g, tokens, made.m, made.combined_items, made.completed_items)

RunCombine(g, tokens, m, completed_id, token_index, current_active_items) ==
    AddCombined(g, tokens, DoCombine(m, completed_id, token_index, current_active_items))

AddScanned(g, tokens, made) ==
    AddMade(g, tokens, made.m, made.active_items, made.completed_items)

RunScan(g, tokens, m, active_id, token_index) ==
    AddScanned(g, tokens, DoScan(m, active_id, tokens[token_index + 1], token_index))

\* 'not_finished = not_finished or ..._items_added'
Accumulate(added, run) == [m |-> run.m, added |-> added \/ run.added]

RECURSIVE CombineLoop(_, _, _, _, _, _)
\* 'for completed_item in ...' of the sweep
CombineLoop(g, tokens, acc, donors, token_index, current_active_items) ==
    IF donors = <<>> \/ acc.m.raised THEN acc
    ELSE CombineLoop(g, tokens,
            Accumulate(acc.added, RunCombine(g, tokens, acc.m, Head(donors), token_index,
                                             current_active_items)),
            Tail(donors), token_index, current_active_items)

RECURSIVE ScanLoop(_, _, _, _, _)
\* 'for active_item in current_active_items' of the sweep
ScanLoop(g, tokens, acc, current_active_items, token_index) ==
    IF current_active_items = <<>> \/ acc.m.raised THEN acc
    ELSE ScanLoop(g, tokens,
            Accumulate(acc.added, RunScan(g, tokens, acc.m, Head(current_active_items),
                                          token_index)),
            Tail(current_active_items), token_index)

\* "Try combining": both lists are taken before the loop
CombinePhase(g, tokens, m, token_index) ==
    CombineLoop(g, tokens, [m |-> m, added |-> FALSE],
                GetItemsList(m.chart, "active_items_with_completed_components"),
                token_index, GetItemsList(m.chart, "active_items"))

\* a second loop of scan over the active items a first has left
ScanAgain(g, tokens, acc, token_index) ==
    ScanLoop(g, tokens, acc, GetItemsList(acc.m.chart, "active_items"), token_index)

\* a variant of ScanPhase that goes on with the active items the loop has left
ScanPhaseLive(g, tokens, m, token_index) ==
    ScanAgain(g, tokens,
              ScanLoop(g, tokens, [m |-> m, added |-> FALSE],
                       GetItemsList(m.chart, "active_items"), token_index),
              token_index)

\* "Try scanning"
ScanPhase(g, tokens, m, token_index) ==
    ScanLoop(g, tokens, [m |-> m, added |-> FALSE], GetItemsList(m.chart, "active_items"),
             token_index)

RECURSIVE ParsingTableLoop(_, _, _, _)
RECURSIVE ParsingTableStep(_, _, _, _, _, _)
\* a variant of ParsingTableStep that does not enqueue the antecedents of the item
\* it prepends
ParsingTableStepShallow(g, all_items, parsing_table, antecedents, item, found) ==
    IF found = "raises" THEN [table |-> parsing_table, raised |-> TRUE]
    ELSE IF found = "yes" THEN ParsingTableLoop(g, all_items, parsing_table, antecedents)
    ELSE ParsingTableLoop(g, all_items, <<item.id>> \o parsing_table, antecedents)

\* the body of the while loop of get_parsing_table, found being the outcome of
\* 'item in parsing_table'
ParsingTableStep(g, all_items, parsing_table, antecedents, item, found) ==
    IF found = "raises" THEN [table |-> parsing_table, raised |-> TRUE]
    ELSE IF found = "yes" THEN ParsingTableLoop(g, all_items, parsing_table, antecedents)
    ELSE ParsingTableLoop(g, all_items, <<item.id>> \o parsing_table,
                          antecedents \o item.antecedent_ids)

\* the while loop of get_parsing_table, on the ids of the items
ParsingTableLoop(g, all_items, parsing_table, antecedents) ==
    IF antecedents = <<>> THEN [table |-> parsing_table, raised |-> FALSE]
    ELSE ParsingTableStep(g, all_items, parsing_table, Tail(antecedents),
                          all_items[Head(antecedents)],
                          ItemInValues(g, all_items, parsing_table, all_items[Head(antecedents)]))

\* get_parsing_table: the list returned, as the ids of its items
GetParsingTable(g, chart, active_item_id) ==
    ParsingTableLoop(g, chart.all_items, <<active_item_id>>,
                     chart.all_items[active_item_id].antecedent_ids)

(***************************************************************************)
(* The program: a grammar is built from grammar (MCFG.__init__), then text *)
(* is parsed (MCFGParser.parse), token position by token position, each    *)
(* position sweeping predict, combine and scan until a sweep adds nothing. *)
(* A second call parses text again, on the same grammar object or on one   *)
(* built anew.                                                             *)
(***************************************************************************)
VARIABLES
    grammar,        \* terminals, functions, rules and start symbol given to MCFG
    text,           \* the text parsed, as the sequence of its words
    rules,          \* MCFG.rules: the simplified rules
    vars_to_rules,  \* MCFG.vars_to_rules: per symbol, its rules in the order laid out
    used,           \* the rules of the grammar object whose flag used is set
    tokens,         \* MCFGParser.tokens
    chart,          \* MCFGParser.chart
    items_counter,  \* ActiveItem.items_counter, a counter of the class
    index,          \* the token position of parse
    not_finished,   \* the flag of the sweep loop
    successful_parsing_item,  \* its id, 0 for None
    result,         \* what parse returned: the ids of the trace, <<>> for None
    pc,             \* where the program is
    parses,         \* parse calls that have returned
    calls,          \* parse calls begun on the current grammar object
    first_verdict,  \* the verdict of the first parse call
    first_layout    \* the layout of the rules the first parse call ran on

vars == <<grammar, text, rules, vars_to_rules, used, tokens, chart, items_counter, index,
          not_finished, successful_parsing_item, result, pc, parses, calls, first_verdict,
          first_layout>>

Verdict(res) == IF res = <<>> THEN "none" ELSE "trace"

Init ==
    /\ grammar \in Range(Grammars)
    /\ text \in Inputs(grammar)
    /\ rules = {}
    /\ vars_to_rules = <<>>
    /\ used = {}
    /\ tokens = <<>>
    /\ chart = EmptyChart
    /\ items_counter = 0
    /\ index = 0
    /\ not_finished = FALSE
    /\ successful_parsing_item = 0
    /\ result = <<>>
    /\ pc = "new"
    /\ parses = 0
    /\ calls = 0
    /\ first_verdict = "unknown"
    /\ first_layout = <<>>

RulesOf(rs, symbol) == {r \in rs : r.symbol = symbol}

\* the per-symbol lists that 'for rule in self.rules' can build from the set of rules
Layouts(rs) ==
    LET symbols == {r.symbol : r \in rs}
    IN  {f \in [symbols -> UNION {SeqsOf(RulesOf(rs, s)) : s \in symbols}] :
            \A s \in symbols : f[s] \in SeqsOf(RulesOf(rs, s))}

\* the state the operators of a parse work on
Machine == [chart |-> chart, items_counter |-> items_counter, used |-> used, raised |-> FALSE]

\* a phase that takes the chart past MaxItems items is not followed further: the
\* chart stays as it is, and the phase has added items
Cut(m, run) ==
    IF Cardinality(DOMAIN run.m.chart.all_items) > MaxItems /\ ~run.m.raised
    THEN [m |-> m, added |-> TRUE]
    ELSE run

Store(m) ==
    /\ chart' = m.chart
    /\ items_counter' = m.items_counter
    /\ used' = m.used

\* MCFG.__init__: the simplifier returns its rules or raises; the rules are laid
\* out per symbol in the order the set is iterated in
Build ==
    /\ pc = "new" \/ (pc = "done" /\ parses < MaxParses)
    /\ \/ /\ SimplifyCanReturn(grammar, grammar.rules)
          /\ rules' = Simplify(grammar, grammar.rules).rules
          /\ vars_to_rules' \in Layouts(rules')
          /\ pc' = "ready"
       \/ /\ SimplifyCanRaise(grammar, grammar.rules)
          /\ rules' = {}
          /\ vars_to_rules' = <<>>
          /\ pc' = "construction raised"
    /\ used' = {}
    /\ calls' = 0
    /\ tokens' = <<>>
    /\ chart' = EmptyChart
    /\ index' = 0
    /\ not_finished' = FALSE
    /\ successful_parsing_item' = 0
    /\ result' = <<>>
    /\ UNCHANGED <<grammar, text, items_counter, parses, first_verdict, first_layout>>

\* parse, up to its loop over the token positions
Parse ==
    /\ pc = "ready" \/ (pc = "done" /\ parses < MaxParses)
    /\ tokens' = text
    /\ chart' = EmptyChart
    /\ successful_parsing_item' = 0
    /\ index' = 0
    /\ calls' = calls + 1
    /\ first_layout' = IF parses = 0 THEN vars_to_rules ELSE first_layout
    /\ result' = <<>>
    /\ not_finished' = FALSE
    /\ pc' = "position"
    /\ UNCHANGED <<grammar, text, rules, vars_to_rules, used, items_counter, parses, first_verdict>>

\* the end of a phase: the state is stored and the flag of the loop updated
EndPhase(run, before, next_pc) ==
    /\ Store(run.m)
    /\ not_finished' = (before \/ run.added)
    /\ pc' = IF run.m.raised THEN "raised" ELSE next_pc

\* run_incremental_parse_for_max_position_i, up to its while loop: at index 0 the
\* start symbol is predicted
BeginPosition ==
    /\ pc = "position"
    /\ IF index = 0
       THEN EndPhase(Cut(Machine, RunPredict(grammar, tokens, Machine, vars_to_rules, 0,
                                             <<grammar.start_symbol>>)),
                     TRUE, "sweep")
       ELSE EndPhase([m |-> Machine, added |-> FALSE], TRUE, "sweep")
    /\ UNCHANGED <<grammar, text, rules, vars_to_rules, tokens, index,
                   successful_parsing_item, result, parses, calls, first_verdict, first_layout>>

\* "Try predictions": the frontier is a set, iterated in some order
Predict ==
    /\ pc = "sweep"
    /\ not_finished
    /\ \E prediction_strategy \in SeqsOf(chart.prediction_strategy) :
          EndPhase(Cut(Machine, RunPredict(grammar, tokens, Machine, vars_to_rules, index,
                                           prediction_strategy)),
                   FALSE, "combine")
    /\ UNCHANGED <<grammar, text, rules, vars_to_rules, tokens, index,
                   successful_parsing_item, result, parses, calls, first_verdict, first_layout>>

\* "Try combining"
Combine ==
    /\ pc = "combine"
    /\ EndPhase(Cut(Machine, CombinePhase(grammar, tokens, Machine, index)),
                not_finished, "scan")
    /\ UNCHANGED <<grammar, text, rules, vars_to_rules, tokens, index,
                   successful_parsing_item, result, parses, calls, first_verdict, first_layout>>

\* "Try scanning", and back to the test of the while loop
Scan ==
    /\ pc = "scan"
    /\ EndPhase(Cut(Machine, ScanPhase(grammar, tokens, Machine, index)),
                not_finished, "sweep")
    /\ UNCHANGED <<grammar, text, rules, vars_to_rules, tokens, index,
                   successful_parsing_item, result, parses, calls, first_verdict, first_layout>>

\* a variant of GoalItems that leaves the found sequence out of the test
GoalItemsOnStartSymbol ==
    SelectSeq(GetItemsList(chart, "completed_items"),
              LAMBDA id : chart.all_items[id].symbol = grammar.start_symbol)

\* the completed items parse accepts as goal: not ignored, on the start symbol, with
\* the text as found sequence
GoalItems ==
    LET IsGoal(id) == /\ chart.all_items[id].symbol = grammar.start_symbol
                      /\ Flatten(chart.all_items[id].found_sequence) = text
    IN  SelectSeq(GetItemsList(chart, "completed_items"), IsGoal)

\* "Check if we've finished", after the sweeps of a position, and on to the next
CheckFinished ==
    /\ pc = "sweep"
    /\ ~not_finished
    /\ successful_parsing_item' = IF GoalItems # <<>> THEN Head(GoalItems)
                                  ELSE successful_parsing_item
    /\ index' = index + 1
    /\ pc' = IF index + 1 < Len(tokens) THEN "position" ELSE "return"
    /\ UNCHANGED <<grammar, text, rules, vars_to_rules, used, tokens, chart, items_counter,
                   not_finished, result, parses, calls, first_verdict, first_layout>>

\* what parse returns: the parsing table of the successful item, or None
ParseResult ==
    IF successful_parsing_item # 0
    THEN GetParsingTable(grammar, chart, successful_parsing_item)
    ELSE [table |-> <<>>, raised |-> FALSE]

ReturnTable(table) ==
    /\ result' = table.table
    /\ pc' = IF table.raised THEN "raised" ELSE "done"
    /\ first_verdict' = IF parses = 0 /\ ~table.raised THEN Verdict(table.table)
                        ELSE first_verdict
    /\ parses' = IF table.raised THEN parses ELSE parses + 1

\* the return of parse
Return ==
    /\ pc = "return"
    /\ ReturnTable(ParseResult)
    /\ UNCHANGED <<grammar, text, rules, vars_to_rules, used, tokens, chart, items_counter,
                   index, not_finished, successful_parsing_item, calls, first_layout>>

Next ==
    \/ Build
    \/ Parse
    \/ BeginPosition
    \/ Predict
    \/ Combine
    \/ Scan
    \/ CheckFinished
    \/ Return

Spec == Init /\ [][Next]_vars

\* the positions of the program
Positions ==
    {"new", "ready", "position", "predict", "combine", "scan", "check", "return",
     "done", "raised", "construction raised"}

\* the positions at which a call has returned or raised
Done == pc \in {"done", "raised", "construction raised"}

\* the program moves on from a position at which no call has ended
Step == ~Done /\ pc' \in Positions /\ pc' # pc

\* Python runs a call to its end: no step that can be taken is put off for ever.
\* An action of Next is enabled at every position but the three of Done and each
\* action leaves its position (EveryStepMoves), so that this is the weak fairness
\* of Next, stated on the position.
FairSpec == Spec /\ WF_pc(Step)

\* every step of the program changes its position
EveryStepMoves == [][pc' # pc]_vars

(***************************************************************************)
(* Properties of parse.                                                    *)
(***************************************************************************)
\* the first parse call, on a grammar just built, has returned
FirstParseReturned == pc = "done" /\ parses = 1

InLanguage == text \in Language(grammar, Range(grammar.rules))

\* C1: soundness of acceptance.  When parse returns a trace, the text is in the
\* language of the grammar.  Stated for the first parse on a grammar just built.
Soundness == (FirstParseReturned /\ result # <<>>) => InLanguage

\* C2: completeness of acceptance.  When the text is in the language of the
\* grammar, parse returns a trace.  Stated for the first parse on a grammar just
\* built.
Completeness == (FirstParseReturned /\ InLanguage) => result # <<>>

\* C3: termination.  Every call of parse ends: the program gets to the return of
\* parse (or to an exception), the sweep loop of every token position ending after
\* finitely many sweeps.
Termination == <>Done

\* the items of the complete role on the start symbol whose found sequence, joined,
\* is the text
CompleteItemsOfText ==
    {id \in Range(chart.completed_items) :
        /\ chart.all_items[id].symbol = grammar.start_symbol
        /\ Flatten(chart.all_items[id].found_sequence) = text}

\* C4: when parse returns a trace, its last element is an item of the complete role
\* on the start symbol whose found sequence joined by spaces is the text; and parse
\* returns a trace exactly when the complete role holds such an item.
GoalOfTrace ==
    pc = "done" =>
        /\ result # <<>> => Last(result) \in CompleteItemsOfText
        /\ result # <<>> <=> CompleteItemsOfText # {}

\* a parse returned a trace of several items
TraceReturned == pc = "done" /\ Len(result) > 1

RECURSIVE Ancestry(_, _)
\* the ids reached from the ids S by following antecedent_ids
Ancestry(all_items, S) ==
    LET more == S \cup UNION {Range(all_items[id].antecedent_ids) : id \in S}
    IN  IF more = S THEN S ELSE Ancestry(all_items, more)

\* C5: trace closure.  Every item of a returned trace is reached from the goal by
\* following antecedents, and every antecedent of an item of the trace is in it.
TraceClosure ==
    (pc = "done" /\ result # <<>>) =>
        /\ Range(result) \subseteq Ancestry(chart.all_items, {Last(result)})
        /\ \A id \in Range(result) :
              Range(chart.all_items[id].antecedent_ids) \subseteq Range(result)

\* a returned trace in which one item is the antecedent of two others
SharedAntecedentInTrace ==
    /\ pc = "done"
    /\ \E i, j \in DOMAIN result :
          /\ i # j
          /\ Range(chart.all_items[result[i]].antecedent_ids)
                \cap Range(chart.all_items[result[j]].antecedent_ids) # {}

\* C6: trace order.  In a returned trace the goal is last and every item comes
\* later than each of its antecedents.
TraceOrder ==
    (FirstParseReturned /\ result # <<>>) =>
        \A i, j \in DOMAIN result :
            result[j] \in Range(chart.all_items[result[i]].antecedent_ids) => j < i

\* C7: the grammar is immutable.  A second parse of the text on the same grammar
\* object gives the verdict of the first parse, which ran on the grammar just built.
SecondParseSameVerdict ==
    (pc = "done" /\ parses = 2 /\ calls = 2) => Verdict(result) = first_verdict

\* C8: determinism of the verdict.  A parse of the text on a grammar built anew,
\* whatever the layout of its rules and the orders the frontier is iterated in,
\* gives the verdict of the first parse; and it raises only if the first did.
VerdictDeterminism ==
    /\ (pc = "done" /\ parses = 2 /\ calls = 1) => Verdict(result) = first_verdict
    /\ (pc = "raised" /\ calls = 1) => parses = 0

\* two parses on two layouts of the rules have returned, the second with a trace
TwoLayoutsParsed ==
    /\ pc = "done" /\ parses = 2 /\ calls = 1
    /\ vars_to_rules # first_layout
    /\ result # <<>>

(***************************************************************************)
(* The simplifier on its own: MCFG.__init__ is run on every grammar made   *)
(* of some rules of a pool, which has rules that derive nothing, rules the *)
(* start symbol does not reach, and symbols with rules of both kinds.      *)
(***************************************************************************)
PoolRules ==
    <<Rl("S", "f", <<"A", "B">>), Rl("S", "h", <<>>), Rl("A", "g", <<>>),
      Rl("B", "k", <<"B">>), Rl("C", "c", <<"A">>), Rl("A", "a", <<>>), Rl("B", "b", <<>>)>>

PoolFunctions ==
    {Fn("f", <<"A", "B">>, << <<"A(0)", "B(0)">> >>), Fn("h", <<>>, << <<"a">> >>),
     Fn("g", <<>>, << <<"a">> >>), Fn("k", <<"B">>, << <<"B(0)", "b">> >>),
     Fn("c", <<"X">>, << <<"X(0)">> >>)}

\* the rules of the pool at the positions chosen, in the order of the pool
PoolGrammar(chosen) ==
    [terminals |-> {"a", "b"}, start_symbol |-> "S", functions |-> PoolFunctions,
     rules |-> SelectSeq(PoolRules, LAMBDA r : \E i \in chosen : PoolRules[i] = r)]

SimplifierInit ==
    /\ grammar \in {PoolGrammar(chosen) : chosen \in SUBSET DOMAIN PoolRules}
    /\ text = <<"a">>
    /\ rules = {}
    /\ vars_to_rules = <<>>
    /\ used = {}
    /\ tokens = <<>>
    /\ chart = EmptyChart
    /\ items_counter = 0
    /\ index = 0
    /\ not_finished = FALSE
    /\ successful_parsing_item = 0
    /\ result = <<>>
    /\ pc = "new"
    /\ parses = 0
    /\ calls = 0
    /\ first_verdict = "unknown"
    /\ first_layout = <<>>

SimplifierSpec == SimplifierInit /\ [][Build]_vars

\* the nonterminals of the right-hand side of a rule: the variables substituted for
\* the placeholders of its function
RhsNonterminals(g, r) ==
    IF IsTerminating(g, r) THEN {}
    ELSE {r.vars[IndexOf(FuncOf(g, r).input_args, PHParts(c)[1]) + 1] :
            c \in AtomsOf(FuncOf(g, r).result_vector) \ g.terminals}

RECURSIVE ProductiveSymbols(_, _, _)
\* the nonterminals that derive terminal strings with the rules rs
ProductiveSymbols(g, rs, found) ==
    LET more == found \cup {r.symbol : r \in {q \in rs : RhsNonterminals(g, q) \subseteq found}}
    IN  IF more = found THEN found ELSE ProductiveSymbols(g, rs, more)

ProductiveRules(g, rs) ==
    {r \in rs : RhsNonterminals(g, r) \subseteq ProductiveSymbols(g, rs, {})}

RECURSIVE ReachableSymbols(_, _, _)
\* the start symbol and the nonterminals on the right-hand sides of the rules of rs
\* reached from it
ReachableSymbols(g, rs, found) ==
    LET more == found \cup UNION {RhsNonterminals(g, r) : r \in {q \in rs : q.symbol \in found}}
    IN  IF more = found THEN found ELSE ReachableSymbols(g, rs, more)

ReachableRules(g, rs) ==
    {r \in rs : r.symbol \in ReachableSymbols(g, rs, {g.start_symbol})}

InputRules == Range(grammar.rules)

\* C9 as stated: the simplifier returns the intersection of the productive rules
\* and the reachable rules of its input.
ReturnsIntersection ==
    pc = "ready" =>
        rules = ProductiveRules(grammar, InputRules) \cap ReachableRules(grammar, InputRules)

\* C9, amended: the simplifier returns the productive rules of its input that the
\* start symbol reaches through productive rules.
ReturnsReachableOfProductive ==
    pc = "ready" => rules = ReachableRules(grammar, ProductiveRules(grammar, InputRules))

\* the simplifier returned after dropping a productive rule that the start symbol
\* reaches in the input, through a rule that derives nothing
DroppedReachableProductive ==
    /\ pc = "ready"
    /\ rules # {}
    /\ (ProductiveRules(grammar, InputRules) \cap ReachableRules(grammar, InputRules)) \ rules # {}

\* C10: simplification preserves the language.  Every rule that occurs in a
\* derivation of a terminal string from the start symbol is kept, and the sentences
\* derived with the rules kept are those derived with the rules given.
LanguagePreserved ==
    pc = "ready" =>
        /\ ReachableRules(grammar, ProductiveRules(grammar, InputRules)) \subseteq rules
        /\ Language(grammar, rules) = Language(grammar, InputRules)

\* the simplifier returned fewer rules than given, for a grammar with sentences
SimplifiedToFewerRules ==
    /\ pc = "ready"
    /\ rules # InputRules
    /\ Language(grammar, InputRules) # {}

(***************************************************************************)
(* The simplifier applied to its own output.                               *)
(***************************************************************************)
\* SimplifiedRules(g.rules, g.terminals, g.start_symbol): the rules of the grammar
\* object, a set, are simplified again.  The loops run over the set in the order it
\* is iterated in; membership in a set goes by hash and compares no rules of
\* different kinds, so that nothing is raised.  vars_to_rules stays as laid out
\* from the first output.
Resimplify ==
    /\ pc = "ready"
    /\ rules' \in {Simplify(grammar, list).rules : list \in SeqsOf(rules)}
    /\ pc' = "resimplified"
    /\ UNCHANGED <<grammar, text, vars_to_rules, used, tokens, chart, items_counter, index,
                   not_finished, successful_parsing_item, result, parses, calls,
                   first_verdict, first_layout>>

ResimplifySpec == SimplifierInit /\ [][Build \/ Resimplify]_vars

\* the rules the simplifier returned the first time, as laid out per symbol
FirstOutput == UNION {Range(vars_to_rules[s]) : s \in DOMAIN vars_to_rules}

\* C11: grammar simplification is idempotent.  The simplifier applied to its own
\* output, with the same terminals and start symbol, returns the same set of rules.
SimplifyIdempotent == pc = "resimplified" => rules = FirstOutput

\* the simplifier was applied again to an output that was smaller than the rules
\* given and not empty
ResimplifiedProperOutput ==
    /\ pc = "resimplified"
    /\ FirstOutput # {}
    /\ FirstOutput # InputRules

(***************************************************************************)
(* Grammars without a productive rule: construction and parses.            *)
(***************************************************************************)
\* the grammars made of rules of the pool none of which derives a terminal string
BarrenGrammars ==
    {g \in {PoolGrammar(chosen) : chosen \in SUBSET DOMAIN PoolRules} :
        ProductiveRules(g, Range(g.rules)) = {}}

BarrenInit ==
    /\ grammar \in BarrenGrammars
    /\ text \in Inputs(grammar)
    /\ rules = {}
    /\ vars_to_rules = <<>>
    /\ used = {}
    /\ tokens = <<>>
    /\ chart = EmptyChart
    /\ items_counter = 0
    /\ index = 0
    /\ not_finished = FALSE
    /\ successful_parsing_item = 0
    /\ result = <<>>
    /\ pc = "new"
    /\ parses = 0
    /\ calls = 0
    /\ first_verdict = "unknown"
    /\ first_layout = <<>>

\* the program runs on, as in FairSpec
BarrenSpec == BarrenInit /\ [][Next]_vars /\ WF_pc(Step)

\* nothing is raised; the grammar built has no rule; a parse that has returned has
\* returned the empty result
BarrenSafe ==
    /\ pc \notin {"raised", "construction raised"}
    /\ pc # "new" => rules = {}
    /\ result = <<>>

\* C12: when the rule list given has no productive rule, the simplifier returns the
\* empty rule set without raising, and every parse on the grammar built ends and
\* returns the empty result.
BarrenGrammarRejects == [](BarrenSafe) /\ <>(pc = "done" /\ parses = 1)

\* a parse on a grammar built from a non-empty list of rules without a productive
\* rule has returned
BarrenParseReturned == pc = "done" /\ parses = 1 /\ grammar.rules # <<>> /\ rules = {}

(***************************************************************************)
(* Rules whose variables are not as many as the arguments of their         *)
(* function: construction.                                                 *)
(***************************************************************************)
ArityFunctions == PoolFunctions \cup {Fn("p", <<"A", "B">>, << <<"A(0)">> >>)}

\* S -> h[A] passes a variable to a function without arguments; S -> p[A] and
\* S -> f[A] pass one variable to functions of two arguments, of which p uses the
\* first only
ArityRules ==
    <<Rl("S", "h", <<>>), Rl("S", "h", <<"A">>), Rl("S", "p", <<"A">>), Rl("S", "f", <<"A">>),
      Rl("A", "g", <<>>), Rl("A", "a", <<>>), Rl("B", "b", <<>>)>>

ArityGrammar(chosen) ==
    [terminals |-> {"a", "b"}, start_symbol |-> "S", functions |-> ArityFunctions,
     rules |-> SelectSeq(ArityRules, LAMBDA r : \E i \in chosen : ArityRules[i] = r)]

ArityInit ==
    /\ grammar \in {ArityGrammar(chosen) : chosen \in SUBSET DOMAIN ArityRules}
    /\ text = <<"a">>
    /\ rules = {}
    /\ vars_to_rules = <<>>
    /\ used = {}
    /\ tokens = <<>>
    /\ chart = EmptyChart
    /\ items_counter = 0
    /\ index = 0
    /\ not_finished = FALSE
    /\ successful_parsing_item = 0
    /\ result = <<>>
    /\ pc = "new"
    /\ parses = 0
    /\ calls = 0
    /\ first_verdict = "unknown"
    /\ first_layout = <<>>

AritySpec == ArityInit /\ [][Build]_vars

\* the rule passes another number of variables than its function has arguments
ArityMismatch(g, r) == ~IsTerminating(g, r) /\ Len(r.vars) # Len(FuncOf(g, r).input_args)

\* C13: construction fails whenever a rule that is not terminating passes another
\* number of variables than its function has arguments; no grammar with such a rule
\* is returned.
ArityChecked ==
    pc = "ready" => \A r \in Range(grammar.rules) : ~ArityMismatch(grammar, r)

(***************************************************************************)
(* The examples of tests.py.                                               *)
(***************************************************************************)
TwoCompExample == grammar = GrammarTwoComp /\ text = <<"a", "b">>

\* C14: for the grammar of the example of several completed components, the parse
\* of "a b" ends and returns a trace.
TwoCompAccepts ==
    TwoCompExample => <>(pc = "done" /\ parses = 1 /\ calls = 1 /\ result # <<>>)

\* the first parse of "a b" with the grammar of the example has returned a trace
TwoCompTraceReturned == TwoCompExample /\ pc = "done" /\ parses = 1 /\ result # <<>>

\* the simple example of tests.py (test2)
GrammarSimple ==
    [terminals |-> {"a", "b", "c"}, start_symbol |-> "S",
     functions |-> {Fn("f1", <<"C", "A">>, << <<"C(0)", "A(0)", "C(1)">> >>),
                    Fn("f2", <<"A">>, << <<"a", "A(1)">> >>),
                    Fn("f3", <<>>, << <<"a">> >>),
                    Fn("f4", <<"C">>, << <<"b", "C(0)">>, <<"b", "C(1)">> >>),
                    Fn("f5", <<"C">>, << <<"c", "C(0)">>, <<"c", "C(1)">> >>),
                    Fn("f6", <<>>, << <<"c">>, <<"c">> >>)},
     rules |-> <<Rl("S", "f1", <<"C", "A">>), Rl("A", "f2", <<"A">>), Rl("A", "f3", <<>>),
                 Rl("C", "f4", <<"C">>), Rl("C", "f5", <<"C">>), Rl("C", "f6", <<>>)>>]

SimpleInit ==
    /\ grammar = GrammarSimple
    /\ text = <<"b", "c", "a", "b", "c">>
    /\ rules = {}
    /\ vars_to_rules = <<>>
    /\ used = {}
    /\ tokens = <<>>
    /\ chart = EmptyChart
    /\ items_counter = 0
    /\ index = 0
    /\ not_finished = FALSE
    /\ successful_parsing_item = 0
    /\ result = <<>>
    /\ pc = "new"
    /\ parses = 0
    /\ calls = 0
    /\ first_verdict = "unknown"
    /\ first_layout = <<>>

\* the program runs on, as in FairSpec
SimpleSpec == SimpleInit /\ [][Next]_vars /\ WF_pc(Step)

\* C16 as stated: for the grammar of the simple example the parse of "b c a b c"
\* returns the empty result.
SimpleRejects == (pc = "done" /\ parses = 1 /\ calls = 1) => result = <<>>

\* C16, amended: for the grammar of the simple example the parse of "b c a b c"
\* ends and returns a trace.  The text is a sentence of the grammar: C yields the
\* pair (b c, b c) by f4 of f6, and A yields a by f3.
SimpleAccepts == <>(pc = "done" /\ parses = 1 /\ calls = 1 /\ result # <<>>)

\* the first parse of "b c a b c" has returned a trace that ends with a completed
\* item on S
SimpleTraceReturned ==
    /\ pc = "done" /\ parses = 1 /\ calls = 1
    /\ Len(result) > 1
    /\ chart.all_items[Last(result)].symbol = "S"

(***************************************************************************)
(* Terminals of which one is a character substring of the other.           *)
(***************************************************************************)
GrammarDouble ==
    [terminals |-> {"a", "aa"}, start_symbol |-> "S",
     functions |-> {Fn("f1", <<"B">>, << <<"B(0)", "B(1)">> >>),
                    Fn("f2", <<>>, << <<"a">>, <<"a">> >>)},
     rules |-> <<Rl("S", "f1", <<"B">>), Rl("B", "f2", <<>>)>>]

DoubleInit ==
    /\ grammar = GrammarDouble
    /\ text \in Inputs(grammar)
    /\ rules = {}
    /\ vars_to_rules = <<>>
    /\ used = {}
    /\ tokens = <<>>
    /\ chart = EmptyChart
    /\ items_counter = 0
    /\ index = 0
    /\ not_finished = FALSE
    /\ successful_parsing_item = 0
    /\ result = <<>>
    /\ pc = "new"
    /\ parses = 0
    /\ calls = 0
    /\ first_verdict = "unknown"
    /\ first_layout = <<>>

DoubleSpec == DoubleInit /\ [][Next]_vars

\* C17: in every chart, the found sequence of every item, read as a sequence of
\* tokens, is a contiguous infix of the sequence of tokens parsed.
FoundSequencesAligned ==
    \A id \in DOMAIN chart.all_items :
        IsInfix(Flatten(chart.all_items[id].found_sequence), tokens)

(***************************************************************************)
(* Properties of the chart.                                                *)
(***************************************************************************)
Roles == {"active_items", "active_items_with_completed_components", "completed_items"}

SameStructure(a, b) ==
    /\ a.symbol = b.symbol
    /\ a.rule = b.rule
    /\ a.range_order = b.range_order
    /\ a.dot_position = b.dot_position
    /\ a.vector_binding = b.vector_binding
    /\ a.found_start = b.found_start
    /\ a.found_end = b.found_end

\* C18: in every chart no two items of one role that are not ignored agree on
\* symbol, rule, range order, dot position, binding, found_start and found_end: an
\* item added while such an item is there is flagged ignored, whatever the
\* token_index, the scanned flag or the action type of the item that is there.
NoStructuralDuplicates ==
    \A role \in Roles : \A i, j \in DOMAIN chart[role] :
        (/\ i < j
         /\ ~chart.all_items[chart[role][i]].ignored
         /\ ~chart.all_items[chart[role][j]].ignored)
        => ~SameStructure(chart.all_items[chart[role][i]], chart.all_items[chart[role][j]])

\* the items made by a combine action
CombineActionItems ==
    {id \in DOMAIN chart.all_items : chart.all_items[id].action_type = "combine"}

\* C19: over a parse at most one item of action combine has a given pair of item ids
\* as its antecedents, and the pair of every such item is in the memo of combined
\* couples: once a pair is there, in either order, no combine of the two is made.
OneCombinePerCouple ==
    \A x \in CombineActionItems :
        /\ chart.all_items[x].antecedent_ids \in chart.combined_couples
        /\ \A y \in CombineActionItems :
              Range(chart.all_items[x].antecedent_ids) = Range(chart.all_items[y].antecedent_ids)
              => x = y

\* a parse has returned with several items of action combine in its chart, two of
\* them made from one completed item
CompletedItemCombinedTwice ==
    /\ pc = "done"
    /\ \E x, y \in CombineActionItems :
          /\ x # y
          /\ chart.all_items[x].antecedent_ids[2] = chart.all_items[y].antecedent_ids[2]

\* the items the predict action made for a rule
PredictActionItems(rule) ==
    {id \in DOMAIN chart.all_items :
        /\ chart.all_items[id].action_type = "predict"
        /\ chart.all_items[id].rule = rule}

\* C20: over a parse the chart holds for each rule of the grammar either no item of
\* action predict or exactly one for each permutation of its component indices (one
\* for a terminating rule), all made at one token index, each with dot position
\* (0,0), an empty found_sequence, found_start = found_end = that token index and no
\* antecedents.
PredictFiresOnce ==
    \A rule \in rules :
        \/ PredictActionItems(rule) = {}
        \/ /\ Cardinality(PredictActionItems(rule)) = Len(PredictedOrders(grammar, rule))
           /\ {chart.all_items[id].range_order : id \in PredictActionItems(rule)}
                = Range(PredictedOrders(grammar, rule))
           /\ \A x, y \in PredictActionItems(rule) :
                 chart.all_items[x].token_index = chart.all_items[y].token_index
           /\ \A id \in PredictActionItems(rule) :
                 /\ chart.all_items[id].dot_position = <<0, 0>>
                 /\ chart.all_items[id].found_sequence = <<>>
                 /\ chart.all_items[id].found_start = chart.all_items[id].token_index
                 /\ chart.all_items[id].found_end = chart.all_items[id].token_index
                 /\ chart.all_items[id].antecedent_ids = <<>>

\* a parse has returned after more than one predict sweep, a rule of two components
\* was predicted in both orders and a terminating rule was predicted after the first
\* token
RulePredictedInBothOrders ==
    /\ pc = "done"
    /\ \E rule \in rules :
          /\ Len(PredictedOrders(grammar, rule)) = 2
          /\ Cardinality(PredictActionItems(rule)) = 2
    /\ \E rule \in rules :
          /\ IsTerminating(grammar, rule)
          /\ \E id \in PredictActionItems(rule) : chart.all_items[id].token_index > 0

\* the items made by a scan or a combine action: each advances the dot of its first
\* antecedent
AdvancedItems ==
    {id \in DOMAIN chart.all_items : chart.all_items[id].action_type \in {"scan", "combine"}}

\* the item whose dot an item of AdvancedItems advances
AdvancedFrom(id) == chart.all_items[chart.all_items[id].antecedent_ids[1]]

\* the component the dot of an item is in, looked up through the range order
ScheduledComponent(item) ==
    item.vector_binding[item.range_order[item.dot_position[1] + 1] + 1]

\* the advance that made the item reported its component finished: the complete item
\* made of it is in the chart
ReportedFinished(id) ==
    \E y \in DOMAIN chart.all_items :
        /\ chart.all_items[y].action_type = "complete"
        /\ chart.all_items[y].antecedent_ids = <<id>>

\* C21: every item made by scan or combine out of an item with dot (c, k) has dot
\* (c, k+1), and its component was reported finished exactly when k+1 is the length
\* of the scheduled component binding[range_order[c]].
DotFollowsScheduledComponent ==
    \A id \in AdvancedItems :
        /\ chart.all_items[id].dot_position
             = <<AdvancedFrom(id).dot_position[1], AdvancedFrom(id).dot_position[2] + 1>>
        /\ ReportedFinished(id)
             <=> AdvancedFrom(id).dot_position[2] + 1 = Len(ScheduledComponent(AdvancedFrom(id)))

\* the couples (candidate, donor) that combine took up with completed components in
\* the candidate and more than one completed component in the donor
MultiComponentCouples ==
    {cp \in chart.combined_couples :
        /\ chart.all_items[cp[1]].dot_position[1] > 0
        /\ chart.all_items[cp[2]].dot_position[1] > 1}

\* every key completed in both items has one value
ConsistentComponents(a, b) ==
    \A i \in DOMAIN GetAllCompletedComponentsAndValues(a) :
        \A j \in DOMAIN GetAllCompletedComponentsAndValues(b) :
            GetAllCompletedComponentsAndValues(a)[i].key = GetAllCompletedComponentsAndValues(b)[j].key
            => GetAllCompletedComponentsAndValues(a)[i].value
                 = GetAllCompletedComponentsAndValues(b)[j].value

\* the found_sequence of the item a combine of the couple makes
CombinedFoundSequence(a, b) ==
    Append(a.found_sequence,
           Flatten(GetAllCompletedComponentsAndValues(b)[
               CHOOSE j \in DOMAIN GetAllCompletedComponentsAndValues(b) :
                   <<GetAllCompletedComponentsAndValues(b)[j].key>> = GetSymbolAfterDot(a)].value))

\* the item a combine of the couple makes is one the chart takes
CombinedIsCompatible(a, b) ==
    FilterOutNonCompatibleItems(grammar, tokens,
        <<[found_sequence |-> CombinedFoundSequence(a, b)]>>) # <<>>

\* C22: for every couple that combine took up with completed components in the
\* candidate and more than one in the donor, the components completed in both being
\* equal, the chart holds the combined item with antecedents [candidate, donor]
\* (unless its found sequence is one the chart does not take).
ConsistentCoupleCombined ==
    \A cp \in MultiComponentCouples :
        (/\ ConsistentComponents(chart.all_items[cp[1]], chart.all_items[cp[2]])
         /\ CombinedIsCompatible(chart.all_items[cp[1]], chart.all_items[cp[2]]))
        => \E x \in CombineActionItems : chart.all_items[x].antecedent_ids = cp

\* a recursive rule of two components fed by a rule of two components: an item of
\* A -> g[A] that has completed its component A(0) looks for the component A(0) of
\* another item on A
GrammarClash ==
    [terminals |-> {"a", "b"}, start_symbol |-> "S",
     functions |-> {Fn("f1", <<"A">>, << <<"A(0)", "A(1)">> >>),
                    Fn("g", <<"A">>, << <<"a">>, <<"A(0)">> >>),
                    Fn("f2", <<>>, << <<"b">>, <<"a">> >>)},
     rules |-> <<Rl("S", "f1", <<"A">>), Rl("A", "g", <<"A">>), Rl("A", "f2", <<>>)>>]

ClashInit ==
    /\ grammar = GrammarClash
    /\ text \in Inputs(grammar)
    /\ rules = {}
    /\ vars_to_rules = <<>>
    /\ used = {}
    /\ tokens = <<>>
    /\ chart = EmptyChart
    /\ items_counter = 0
    /\ index = 0
    /\ not_finished = FALSE
    /\ successful_parsing_item = 0
    /\ result = <<>>
    /\ pc = "new"
    /\ parses = 0
    /\ calls = 0
    /\ first_verdict = "unknown"
    /\ first_layout = <<>>

ClashSpec == ClashInit /\ [][Next]_vars

\* C23: the two antecedents of every item made by a combine have, under every key
\* completed in both, one value: no combined item is made of a candidate and a donor
\* whose completed components differ under a common key.
MismatchedCoupleNotCombined ==
    \A x \in CombineActionItems :
        ConsistentComponents(chart.all_items[chart.all_items[x].antecedent_ids[1]],
                             chart.all_items[chart.all_items[x].antecedent_ids[2]])

\* the ids a step adds to the chart
NewItems == DOMAIN chart'.all_items \ DOMAIN chart.all_items

\* the chart the scan phase of the sweep leaves, seen from the step of its combine
\* phase
ChartAfterScan == ScanPhase(grammar, tokens, Machine', index).m.chart

\* C24 as stated: the scan phase of a sweep scans no item made by the combine phase
\* of that sweep.
ScanSkipsCombinedOfSweep ==
    [][(pc = "combine" /\ pc' = "scan")
        => \A id \in NewItems : ~ChartAfterScan.all_items[id].scanned]_vars

\* C24: each phase of a sweep works on the lists taken at its start: predict makes
\* items on the symbols of the frontier it found, combine makes items of the items it
\* found, and scan scans none of the items it makes.  The items the combine phase
\* made are in the list of the scan phase of that sweep.
PhasesWorkOnSnapshots ==
    [][/\ (pc = "sweep" /\ pc' = "combine")
          => \A id \in NewItems : chart'.all_items[id].symbol \in chart.prediction_strategy
       /\ (pc = "combine" /\ pc' = "scan")
          => \A id \in NewItems :
                chart'.all_items[id].action_type = "combine"
                => Range(chart'.all_items[id].antecedent_ids) \subseteq DOMAIN chart.all_items
       /\ (pc = "scan" /\ pc' = "sweep")
          => \A id \in NewItems : ~chart'.all_items[id].scanned]_vars

\* a sweep has ended whose scan phase scanned an item made by a combine at the same
\* token position, and the item that scan made is in the chart, not scanned
ScannedCombinedOfSweep ==
    /\ pc = "sweep"
    /\ \E id \in DOMAIN chart.all_items :
          /\ chart.all_items[id].action_type = "scan"
          /\ ~chart.all_items[id].scanned
          /\ chart.all_items[id].token_index = index
          /\ AdvancedFrom(id).action_type = "combine"
          /\ AdvancedFrom(id).scanned
          /\ AdvancedFrom(id).token_index = index

\* grammars whose start rule passes, next to a nonterminal, a terminal or the empty
\* string (MCFGRule: 'a var can be an empty string')
MixedVarsGrammars ==
    {[terminals |-> {"a", "b"}, start_symbol |-> "S",
      functions |-> {Fn("f1", <<"A", extra>>, << <<"A(0)">> >>)},
      rules |-> <<Rl("S", "f1", <<"A", extra>>), Rl("A", "a", <<>>)>>] : extra \in {"", "b"}}

MixedVarsInit ==
    /\ grammar \in MixedVarsGrammars
    /\ text \in Inputs(grammar)
    /\ rules = {}
    /\ vars_to_rules = <<>>
    /\ used = {}
    /\ tokens = <<>>
    /\ chart = EmptyChart
    /\ items_counter = 0
    /\ index = 0
    /\ not_finished = FALSE
    /\ successful_parsing_item = 0
    /\ result = <<>>
    /\ pc = "new"
    /\ parses = 0
    /\ calls = 0
    /\ first_verdict = "unknown"
    /\ first_layout = <<>>

MixedVarsSpec == MixedVarsInit /\ [][Next]_vars

\* C25: in every chart the prediction frontier holds only non-empty symbols that are
\* no terminals, and no step of a parse takes a symbol out of it.
FrontierOfNonterminals ==
    /\ [](\A symbol \in chart.prediction_strategy :
            symbol # "" /\ symbol \notin grammar.terminals)
    /\ [][(pc \in {"position", "sweep", "combine", "scan"})
           => (chart.prediction_strategy \subseteq chart'.prediction_strategy)]_vars

\* the step is a call of predict: the one of the start symbol at index 0, or the one
\* of a sweep
PredictCall ==
    \/ pc = "position" /\ index = 0
    \/ pc = "sweep" /\ pc' # "sweep"

\* the symbols the call of predict is given
PredictCallStrategy ==
    IF pc = "position" THEN {grammar.start_symbol} ELSE chart.prediction_strategy

\* the rules a call of predict comes to with their flag used not set and a terminal
\* as the first atom of their first component
TerminalFirstRules ==
    {rule \in rules \ used :
        /\ rule.symbol \in PredictCallStrategy
        /\ Len(PredictedBinding(grammar, rule)[1][1]) = 1
        /\ PredictedBinding(grammar, rule)[1][1][1] \in grammar.terminals}

\* C26: a call of predict that returns leaves every rule it skips for its first
\* terminal unmarked and without items, and fires every unmarked rule of its
\* strategy whose first terminal is the current token: the rule is marked and its
\* items are made at the current token index.  No combine and no scan changes a mark.
PrunedRuleFiresLater ==
    [][/\ (PredictCall /\ pc' \in {"sweep", "combine"})
          => \A rule \in TerminalFirstRules :
                IF PredictedBinding(grammar, rule)[1][1] = <<tokens[index + 1]>>
                THEN /\ rule \in used'
                     /\ \E id \in NewItems :
                           /\ chart'.all_items[id].rule = rule
                           /\ chart'.all_items[id].action_type = "predict"
                           /\ chart'.all_items[id].token_index = index
                ELSE /\ rule \notin used'
                     /\ \A id \in NewItems : chart'.all_items[id].rule # rule
       /\ (pc \in {"combine", "scan"}) => (used' = used)]_vars

\* a parse has returned with, in its chart, the items of a rule that starts with a
\* terminal predicted after the first token, and the items of another rule of its
\* symbol predicted at the first token: the rule was skipped there
SkippedRuleFired ==
    /\ pc = "done"
    /\ \E x, y \in DOMAIN chart.all_items :
          /\ chart.all_items[x].action_type = "predict"
          /\ chart.all_items[y].action_type = "predict"
          /\ chart.all_items[x].symbol = chart.all_items[y].symbol
          /\ chart.all_items[x].token_index = 0
          /\ chart.all_items[y].token_index > 0
          /\ Len(chart.all_items[y].vector_binding[1][1]) = 1
          /\ chart.all_items[y].vector_binding[1][1][1] \in grammar.terminals

\* the items made by a scan action
ScanActionItems ==
    {id \in DOMAIN chart.all_items : chart.all_items[id].action_type = "scan"}

\* the item is in the list of the scan phase and has the current token after its dot
MeetsToken(id) ==
    /\ id \in Range(GetItemsList(chart, "active_items"))
    /\ GetSymbolAfterDot(chart.all_items[id]) = <<tokens[index + 1]>>

\* C27: an item is scanned at most once in a parse.  No two items of action scan
\* have one antecedent, and the antecedent of each has its flag scanned set; a scan
\* phase that returns sets the flag of exactly the items of its list that have the
\* current token after their dot, whether the chart takes the item made or not; no
\* other step of the parse changes the flag of an item.
ScannedAtMostOnce ==
    /\ [](\A x \in ScanActionItems :
            /\ AdvancedFrom(x).scanned
            /\ \A y \in ScanActionItems :
                  chart.all_items[x].antecedent_ids = chart.all_items[y].antecedent_ids
                  => x = y)
    /\ [][(pc = "scan" /\ pc' = "sweep")
           => (\A id \in DOMAIN chart.all_items :
                 chart'.all_items[id].scanned
                 <=> (chart.all_items[id].scanned \/ MeetsToken(id)))]_vars
    /\ [][(pc \in {"position", "sweep", "combine", "check"})
           => (\A id \in DOMAIN chart.all_items :
                 chart'.all_items[id].scanned = chart.all_items[id].scanned)]_vars

\* a parse has returned with an item scanned whose scan item the chart did not take,
\* and an item scanned whose scan item is in the chart
ScannedWithAndWithoutItem ==
    /\ pc = "done"
    /\ \E id \in DOMAIN chart.all_items :
          /\ chart.all_items[id].scanned
          /\ \A x \in ScanActionItems : chart.all_items[x].antecedent_ids # <<id>>
    /\ \E id \in DOMAIN chart.all_items :
          /\ chart.all_items[id].scanned
          /\ \E x \in ScanActionItems : chart.all_items[x].antecedent_ids = <<id>>

\* the dot of the item is past its last component
DotPastLastComponent(id) ==
    chart.all_items[id].dot_position[1] = Len(chart.all_items[id].vector_binding)

\* C28: in every chart left by a predict, combine or scan that returned, no item of
\* active_items has its dot past its last component, every item of completed_items
\* has and is in active_items_with_completed_components too, and every id of a role
\* is the key, in all_items, of the item with that id.
RolePartition ==
    pc # "raised"
    => /\ \A role \in Roles : \A i \in DOMAIN chart[role] :
             /\ chart[role][i] \in DOMAIN chart.all_items
             /\ chart.all_items[chart[role][i]].id = chart[role][i]
       /\ \A i \in DOMAIN chart.active_items : ~DotPastLastComponent(chart.active_items[i])
       /\ \A i \in DOMAIN chart.completed_items :
             /\ DotPastLastComponent(chart.completed_items[i])
             /\ chart.completed_items[i] \in Range(chart.active_items_with_completed_components)

\* a parse has returned with items in the three roles, among them an item of
\* active_items_with_completed_components that is still in active_items
RolesAllFilled ==
    /\ pc = "done"
    /\ chart.completed_items # <<>>
    /\ \E i \in DOMAIN chart.active_items_with_completed_components :
          /\ chart.active_items_with_completed_components[i] \in Range(chart.active_items)
          /\ chart.active_items_with_completed_components[i] \notin Range(chart.completed_items)

\* an item without its two flags
Unflagged(item) == [item EXCEPT !.scanned = FALSE, !.ignored = FALSE]

\* C29: over the steps of a parse every item of the chart stays in the chart with all
\* its fields but scanned and ignored as they are, and a flag that is set stays set.
ItemsFrozen ==
    [][(pc \in {"position", "sweep", "combine", "scan", "check"})
        => (\A id \in DOMAIN chart.all_items :
              /\ id \in DOMAIN chart'.all_items
              /\ Unflagged(chart'.all_items[id]) = Unflagged(chart.all_items[id])
              /\ chart.all_items[id].scanned => chart'.all_items[id].scanned
              /\ chart.all_items[id].ignored => chart'.all_items[id].ignored)]_vars

\* a parse has returned with an item that was scanned, a complete item that an
\* insertion flagged ignored, and an item made by a combine with another binding
\* than the item it was made of
ItemsFlaggedAndRebound ==
    /\ pc = "done"
    /\ \E id \in DOMAIN chart.all_items : chart.all_items[id].scanned
    /\ \E id \in DOMAIN chart.all_items :
          chart.all_items[id].action_type = "complete" /\ chart.all_items[id].ignored
    /\ \E id \in CombineActionItems :
          chart.all_items[id].vector_binding # AdvancedFrom(id).vector_binding

\* C30: in every chart each antecedent id of each item is a key of all_items and is
\* smaller than the id of the item, and the parsing table extracted from any item of
\* the chart is made of ids of all_items.
AntecedentsResolve ==
    \A id \in DOMAIN chart.all_items :
        /\ \A a \in Range(chart.all_items[id].antecedent_ids) :
              a \in DOMAIN chart.all_items /\ a < id
        /\ Range(GetParsingTable(grammar, chart, id).table) \subseteq DOMAIN chart.all_items

\* a parse has returned a trace, with in its chart an item made by a combine from a
\* complete item that was made of a scan item made of a predicted item
AntecedentChainInChart ==
    /\ pc = "done"
    /\ result # <<>>
    /\ \E x \in CombineActionItems :
          /\ chart.all_items[chart.all_items[x].antecedent_ids[2]].action_type = "complete"
          /\ AdvancedFrom(chart.all_items[x].antecedent_ids[2]).action_type = "scan"
          /\ AdvancedFrom(AdvancedFrom(chart.all_items[x].antecedent_ids[2]).id).action_type
               = "predict"

\* C31: at every call of combine or scan, and in every other state of a parse, every
\* item of the chart has a token_index that is at most the token position parsed:
\* the tests 'item.token_index > token_index' of do_scan and do_combine find no item.
NoItemAheadOfPosition ==
    \A id \in DOMAIN chart.all_items : chart.all_items[id].token_index <= index

\* a scan phase is about to run after the first token position, with in the chart
\* items of the position parsed and items of a position before it
ScanWithItemsOfTwoPositions ==
    /\ pc = "scan"
    /\ index > 0
    /\ \E id \in Range(GetItemsList(chart, "active_items")) :
          chart.all_items[id].token_index = index
    /\ \E id \in Range(GetItemsList(chart, "active_items")) :
          chart.all_items[id].token_index < index
    /\ GetItemsList(chart, "active_items_with_completed_components") # <<>>

====
